---- MODULE Spec2Model ----
(***************************************************************************)
(* The resumable build pipeline of glivedisk.builder.Builder: construction *)
(* (checkpoint store, action sequence, mount list), Builder.run/_run, the  *)
(* stages of the action sequence, bind/unbind and mount_safety_check.      *)
(*                                                                         *)
(* A handler is an operator from a machine record to a machine record. The *)
(* record carries the state on disk (checkpoints, working root, mounts),   *)
(* the trace of what the process did (log), and the control state of the   *)
(* Python process executing the handler: exc (an exception propagates),    *)
(* alive (the process was not killed), n (effects executed so far).        *)
(***************************************************************************)
EXTENDS Integers, Sequences, FiniteSets, TLC

\* ------------------------------------------------------------------ bounds
\* besides autoresume, at most MaxOpts options and keys are set in one configuration
MaxOpts == 1
\* the model keeps the first MaxMounts entries of self.mounts
MaxMounts == 2
\* number of distinct digests a source file can have
MaxHash == 2
\* number of Builder processes started one after the other
MaxRuns == 2
\* a process can be killed just before its k-th effect, k in 1..MaxKill
MaxKill == 3
\* number of keys by which the settings differ from a plain configuration
MaxOdd == 1
\* number of processes that work on one chroot_path at the same time
MaxProcs == 2

\* ------------------------------------------------------- configuration
Options ==
    {"autoresume", "seedcache", "snapcache", "keepwork", "fetch", "purge",
     "purgeonly", "purgetmponly", "clear-autoresume", "pkgcache", "kerncache"}

\* settings keys whose presence a stage tests
SettingKeys == {"portage_confdir", "portage_overlay", "port_logdir", "var_tmpfs_portage"}

HexDigits == <<"a", "b", "c", "d", "e", "f">>

\* digests as the hash service delivers them: strings of hex digits
Hashes == { <<HexDigits[i]>> : i \in 1..MaxHash }

\* no data (Python None)
None == <<>>

CkptNames ==
    {"setup_target_path", "unpack", "unpack_repo", "setup_confdir",
     "chroot_setup", "run_local", "preclean", "clean", "capture",
     "build_kernel", "build_kernel_gentoo", "build_kernel_vanilla"}

\* a settings key; the keys of one kernel are <<"boot/kernel", name, variable>>
RequiredValues ==
    { <<x>> : x \in {"storedir", "sharedir", "distdir", "portdir", "version_stamp",
                     "target", "subarch", "rel_type", "profile", "snapshot",
                     "source_subpath"} }

ValidValues ==
    { <<x>> : x \in {"portage_confdir", "portage_prefix", "portage_overlay",
                     "cflags", "cxxflags", "fcflags", "fflags", "ldflags",
                     "asflags", "common_flags", "cbuild", "hostuse",
                     "catalyst_use", "distcc_hosts", "makeopts", "pkgcache_path",
                     "kerncache_path", "compression_mode", "decompression_mode",
                     "interpreter", "fstype", "fsopts", "options",
                     "snapshot_cache", "hash_function", "digests", "contents",
                     "compressor_arch", "compressor_options",
                     "decompressor_search_order"} }

KernelNames == {"gentoo", "vanilla"}

KernelVars ==
    {"aliases", "config", "console", "extraversion", "gk_action", "gk_kernargs",
     "initramfs_overlay", "machine_type", "sources", "softlevel", "use",
     "packages", "kernelopts"}

\* the table after set_valid_build_kernel_vars(addlargs); names is
\* addlargs["boot/kernel"]
set_valid_build_kernel_vars(valid, addlargs, names) ==
    IF <<"boot/kernel">> \in addlargs
    THEN valid \cup { <<"boot/kernel", x, v>> : x \in names, v \in KernelVars }
    ELSE valid

\* a validation that lets unknown keys pass
addl_arg_parse_lenient(myspec, valid) ==
    { <<"not specified", x>> : x \in RequiredValues \ myspec }

\* the messages _addl_arg_parse collects; it raises CatalystError if there are any
addl_arg_parse(myspec, valid) ==
    { <<"not recognized", x>> : x \in myspec \ (valid \cup RequiredValues) }
        \cup { <<"not specified", x>> : x \in RequiredValues \ myspec }

\* the keys __init__ reads as self.settings[key], with no test and no default,
\* before it opens the checkpoint store (set_autoresume_path) ...
ReadsBeforeStore ==
    { <<x>> : x \in {"archdir", "decompress_definitions",
                     "decompressor_search_order", "comp_prog", "decomp_opt",
                     "source_matching", "snapshot_name", "hash_map",
                     "hash_function", "options"} }

\* ... and after it
ReadsAfterStore ==
    { <<x>> : x \in {"repo_basedir", "repo_name", "target_distdir", "target_pkgdir"} }

ConsumedKeys == ReadsBeforeStore \cup ReadsAfterStore

\* a completion that appends capture whatever the options are
completion_always_captures(seq, opts) ==
    LET s1 == Append(seq, "capture")
    IN  IF "keepwork" \in opts THEN Append(s1, "clear_autoresume")
        ELSE IF "seedcache" \in opts THEN Append(s1, "remove_autoresume")
        ELSE Append(Append(s1, "remove_autoresume"), "remove_chroot")

set_completion_action_sequences(seq, opts) ==
    LET s1 == IF "fetch" \notin opts THEN Append(seq, "capture") ELSE seq
    IN  IF "keepwork" \in opts THEN Append(s1, "clear_autoresume")
        ELSE IF "seedcache" \in opts THEN Append(s1, "remove_autoresume")
        ELSE Append(Append(s1, "remove_autoresume"), "remove_chroot")

set_action_sequence(opts) ==
    set_completion_action_sequences(
        <<"unpack", "unpack_snapshot", "setup_confdir", "portage_overlay",
          "base_dirs", "bind", "chroot_setup", "setup_environment",
          "run_local", "preclean", "unbind", "clean">>, opts)

\* a default sequence that does not look at purgeonly
default_ignores_purgeonly(opts) == set_action_sequence(opts)

set_default_action_sequence(opts) ==
    IF "purgeonly" \in opts THEN <<"remove_chroot">>
    ELSE set_action_sequence(opts)

StageNames ==
    {"unpack", "unpack_snapshot", "setup_confdir", "portage_overlay",
     "base_dirs", "bind", "chroot_setup", "setup_environment", "run_local",
     "preclean", "unbind", "clean", "capture", "clear_autoresume",
     "remove_autoresume", "remove_chroot"}

\* list.remove(x): the list without its first occurrence of x
ListRemove(seq, x) ==
    LET idx == { i \in 1..Len(seq) : seq[i] = x }
    IN  IF idx = {} THEN seq
        ELSE LET k == CHOOSE i \in idx : \A j \in idx : i <= j
             IN  SubSeq(seq, 1, k - 1) \o SubSeq(seq, k + 1, Len(seq))

\* a mount list that keeps portdir whatever the options are
InitMounts_keeps_portdir(opts, keys, linux) ==
    LET m0 == <<"proc", "dev", "portdir", "distdir", "port_tmpdir">>
        m2 == IF linux THEN m0 \o <<"devpts", "shm", "run">> ELSE m0
        m3 == IF "pkgcache" \in opts THEN Append(m2, "packagedir") ELSE m2
        m4 == IF "kerncache" \in opts THEN Append(m3, "kerncache") ELSE m3
    IN  IF "port_logdir" \in keys THEN Append(m4, "port_logdir") ELSE m4

\* self.mounts as __init__ builds it
InitMounts(opts, keys, linux) ==
    LET m0 == <<"proc", "dev", "portdir", "distdir", "port_tmpdir">>
        m1 == IF "snapcache" \notin opts THEN ListRemove(m0, "portdir") ELSE m0
        m2 == IF linux THEN m1 \o <<"devpts", "shm", "run">> ELSE m1
        m3 == IF "pkgcache" \in opts THEN Append(m2, "packagedir") ELSE m2
        m4 == IF "kerncache" \in opts THEN Append(m3, "kerncache") ELSE m3
    IN  IF "port_logdir" \in keys THEN Append(m4, "port_logdir") ELSE m4

MountNames ==
    {"proc", "dev", "portdir", "distdir", "port_tmpdir", "devpts", "shm",
     "run", "packagedir", "kerncache", "port_logdir"}

\* the names the default tables have an entry for
SOURCE_MOUNT_DEFAULTS ==
    {"proc", "dev", "devpts", "shm", "run", "distdir", "portdir", "port_tmpdir"}

TARGET_MOUNT_DEFAULTS ==
    {"proc", "dev", "devpts", "shm", "run", "distdir", "port_tmpdir",
     "kerncache", "port_logdir"}

\* the keys of self.mountmap after __init__
mountmap(opts, keys) ==
    SOURCE_MOUNT_DEFAULTS \cup {"portdir", "distdir"}
        \cup (IF "pkgcache" \in opts THEN {"packagedir"} ELSE {})
        \cup (IF "kerncache" \in opts THEN {"kerncache"} ELSE {})
        \cup (IF "port_logdir" \in keys THEN {"port_logdir"} ELSE {})

\* the keys of self.target_mounts after __init__
target_mounts == TARGET_MOUNT_DEFAULTS \cup {"portdir", "distdir", "packagedir"}

\* self.mountmap[x]: a host path, or one of the virtual sources
MountSource(x) ==
    CASE x = "port_tmpdir" -> "maybe_tmpfs"
      [] x = "run" -> "tmpfs"
      [] x = "shm" -> "shmfs"
      [] OTHER -> "path"

Prefix(seq, k) == SubSeq(seq, 1, IF Len(seq) < k THEN Len(seq) ELSE k)

\* a list left in the order it has
SameOrder(seq) == seq

Reverse(seq) == [ i \in 1..Len(seq) |-> seq[Len(seq) + 1 - i] ]

Range(seq) == { seq[i] : i \in 1..Len(seq) }

\* ------------------------------------------------------------- state
VARIABLES
    options,            \* settings["options"]
    keys,               \* optional settings keys that are present
    controller,         \* os.path.exists(settings["controller_file"])
    mounts,             \* self.mounts
    action_sequence,    \* settings["action_sequence"]
    myspec,             \* the keys of the settings the constructor was given
    boot_kernel,        \* settings["boot/kernel"]: the kernel names
    valid_values,       \* Builder.valid_values, one list for the whole class
    verdict,            \* how the last constructor call ended
    lock,               \* the process that holds chroot_path + ".lock", 0 if none
    proc,               \* where each of the concurrent processes is
    actor,              \* the concurrent process that took the last step
    source_path_hash,   \* settings["source_path_hash"], None when not set
    snapshot_path_hash, \* settings["snapshot_path_hash"]
    pc,                 \* where the Builder process is
    pos,                \* index of the next stage of the action sequence
    result,             \* what Builder.run delivered
    runs,               \* processes started so far
    resume,             \* the checkpoint store: name -> [on, data]
    store,              \* the store's directory exists
    chroot,             \* settings["chroot_path"] is a directory
    portdir,            \* the portage tree directory exists in the chroot
    cache_hash,         \* content of the snapshot cache's catalyst-hash file
    builds,             \* set_target_path has made sure the builds directory exists
    mnt,                \* mounts stacked on each target of the mount table
    source_digest,      \* digest of the seed archive now on disk
    snapshot_digest,    \* digest of the snapshot archive now on disk
    wiped,              \* the chroot was cleared with a target mounted
    ran,                \* the stages _run has started in this run, in order
    warned,             \* this run logged "Couldn't create stage tarball"
    log,                \* what the last step of the process did, in order
    trace,              \* the same with what its calls of unbind did inside
    named               \* the targets named by the last error builder.py raised in the step

cfgvars == <<options, keys, controller, mounts, action_sequence>>
argvars == <<myspec, boot_kernel, valid_values, verdict>>
lockvars == <<lock, proc, actor>>
procvars == <<source_path_hash, snapshot_path_hash, pc, pos, result, runs>>
diskvars ==
    <<resume, store, chroot, portdir, cache_hash, builds, mnt, wiped, ran, warned,
      log, trace, named>>
envvars == <<source_digest, snapshot_digest>>
vars == <<cfgvars, argvars, lockvars, procvars, diskvars, envvars>>

Off == [on |-> FALSE, data |-> None]

\* the machine record a handler starts from
Machine(kill) ==
    [resume |-> resume, store |-> store, chroot |-> chroot, portdir |-> portdir,
     cache_hash |-> cache_hash, builds |-> builds, mnt |-> mnt, wiped |-> wiped,
     ran |-> ran, warned |-> warned, log |-> <<>>, trace |-> <<>>, quiet |-> FALSE,
     named |-> {}, exc |-> FALSE, alive |-> TRUE, n |-> 0, kill |-> kill, ret |-> ""]

Commit(m) ==
    /\ resume' = m.resume
    /\ store' = m.store
    /\ chroot' = m.chroot
    /\ portdir' = m.portdir
    /\ cache_hash' = m.cache_hash
    /\ builds' = m.builds
    /\ mnt' = m.mnt
    /\ wiped' = m.wiped
    /\ ran' = m.ran
    /\ warned' = m.warned
    /\ log' = m.log
    /\ trace' = m.trace
    /\ named' = m.named

\* the handler goes on: not killed, no exception on its way up
Live(m) == m.alive /\ ~m.exc

\* the element of a one-element set
The(S) == CHOOSE r \in S : TRUE

\* one effect on machine v: it happens unless the process is dead, unwinding
\* or killed here. A handler computes the machine it continues from once, as
\* v in The({ ... : v \in {m} }), and goes on from v
Do(v, t) ==
    IF ~Live(v) THEN v
    ELSE IF v.n + 1 = v.kill THEN [v EXCEPT !.alive = FALSE]
    ELSE [t EXCEPT !.n = v.n + 1]

\* every effect goes to the trace; the log leaves out what unbind does inside
Note(m, kind, what) ==
    [m EXCEPT !.trace = Append(@, <<kind, what>>),
              !.log = IF m.quiet THEN @ ELSE Append(@, <<kind, what>>)]

Raise(m) == The({ IF Live(v) THEN [v EXCEPT !.exc = TRUE] ELSE v : v \in {m} })

\* raise CatalystError(message): names are the targets the message is built from
RaiseNaming(m, names) ==
    The({ IF Live(v) THEN [v EXCEPT !.exc = TRUE, !.named = names] ELSE v : v \in {m} })

\* an except clause caught the exception
Caught(m) == [m EXCEPT !.exc = FALSE]

\* an ismount that takes every target for a mount point
IsMounted_always(m, x) == TRUE

IsMounted(m, x) == m.mnt[x] > 0

AnyMounted(m) == \E i \in 1..Len(mounts) : IsMounted(m, mounts[i])

\* ------------------------------------------------- the checkpoint store
\* AutoResume(path): the store's directory is created
AutoResume(m) ==
    The({ Do(v, [Note(v, "mkdir", "autoresume") EXCEPT !.store = TRUE]) : v \in {m} })

is_enabled(m, name) == m.resume[name].on

get(m, name) == IF m.resume[name].on THEN m.resume[name].data ELSE None

enable(m, name, data) ==
    The({ Do(v, [Note(v, "enable", name) EXCEPT
                         !.resume[name] = [on |-> TRUE, data |-> data]]) : v \in {m} })

clear_all(m, remove) ==
    The({ Do(v, [Note(v, "clear_all", IF remove THEN "remove" ELSE "keep") EXCEPT
                         !.resume = [c \in CkptNames |-> Off],
                         !.store = IF remove THEN FALSE ELSE @]) : v \in {m} })

\* ------------------------------------------------- external collaborators
\* support.cmd: runs a child process; a non-zero exit raises CatalystError
cmd(m, what, ok) ==
    The({ Do(v, IF ok THEN Note(v, "cmd", what)
                     ELSE [Note(v, "cmd_failed", what) EXCEPT !.exc = TRUE]) : v \in {m} })

\* fileops.ensure_dirs on a path below the chroot: the chroot exists afterwards
ensure_dirs(m, what) ==
    The({ Do(v, [Note(v, "ensure_dirs", what) EXCEPT !.chroot = TRUE]) : v \in {m} })

\* decompressor.extract: true on success, false on a reported failure
extract(m, ok) ==
    The({ Do(v, Note(v, "extract", IF ok THEN "ok" ELSE "fail")) : v \in {m} })

\* compressor.compress: the same boolean contract
compress(m, ok) ==
    The({ Do(v, Note(v, "compress", IF ok THEN "ok" ELSE "fail")) : v \in {m} })

\* cmd(['umount', target])
umount(m, x, ok) ==
    The({ Do(v, IF ok
                     THEN [Note(v, "umount", x) EXCEPT !.mnt[x] = @ - 1]
                     ELSE [Note(v, "umount_failed", x) EXCEPT !.exc = TRUE]) : v \in {m} })

\* str.replace("\n", " ")
ReplaceNl(s) == [ i \in DOMAIN s |-> IF s[i] = "\n" THEN " " ELSE s[i] ]

\* ------------------------------------------------- mounts
kill_chroot_pids(m, in) == cmd(m, "kill-chroot-pids", in.killok)

RECURSIVE unbind_loop(_, _, _, _)
unbind_loop(m, myrevmounts, in, ouch) ==
    IF ~Live(m) THEN m
    ELSE IF myrevmounts = <<>> THEN (IF ouch THEN RaiseNaming(m, {}) ELSE m)
    ELSE IF ~IsMounted(m, Head(myrevmounts))
    THEN unbind_loop(m, Tail(myrevmounts), in, ouch)
    ELSE The({ IF ~m1.alive THEN m1
               ELSE IF ~m1.exc THEN unbind_loop(m1, Tail(myrevmounts), in, ouch)
               ELSE The({ IF ~Live(m2) THEN m2
                          ELSE The({ IF ~m3.alive THEN m3
                                     ELSE IF m3.exc
                                     THEN unbind_loop(Caught(m3), Tail(myrevmounts), in, TRUE)
                                     ELSE unbind_loop(m3, Tail(myrevmounts), in, ouch) :
                                     m3 \in {umount(m2, Head(myrevmounts),
                                                    in.out[Head(myrevmounts)] = "retry")} }) :
                          m2 \in {kill_chroot_pids(Caught(m1), in)} }) :
               m1 \in {umount(m, Head(myrevmounts), in.out[Head(myrevmounts)] = "ok")} })

\* an unbind that keeps a failed unmount to itself
unbind_silent(m, in) ==
    The({ IF ~Live(v) THEN v
          ELSE The({ IF m1.alive THEN [Caught(m1) EXCEPT !.quiet = v.quiet] ELSE m1 :
                     m1 \in {unbind_loop([Note(v, "call", "unbind") EXCEPT !.quiet = TRUE],
                                         Reverse(mounts), in, FALSE)} }) :
          v \in {m} })

unbind(m, in) ==
    The({ IF ~Live(v) THEN v
          ELSE The({ [m1 EXCEPT !.quiet = v.quiet] :
                     m1 \in {unbind_loop([Note(v, "call", "unbind") EXCEPT !.quiet = TRUE],
                                         Reverse(mounts), in, FALSE)} }) :
          v \in {m} })

\* a mount check that tries unbind and returns whatever came of it
mount_safety_loop_lenient(m, ms, in) ==
    IF ~Live(m) \/ ~AnyMounted(m) THEN m
    ELSE The({ IF m1.alive THEN Caught(m1) ELSE m1 : m1 \in {unbind(m, in)} })

RECURSIVE mount_safety_loop(_, _, _)
mount_safety_loop(m, ms, in) ==
    IF ~Live(m) \/ ms = <<>> THEN m
    ELSE IF ~IsMounted(m, Head(ms)) THEN mount_safety_loop(m, Tail(ms), in)
    ELSE The({ IF ~m1.alive THEN m1
               ELSE IF m1.exc \/ IsMounted(m1, Head(ms))
               THEN RaiseNaming(Caught(m1), {Head(ms)})
               ELSE mount_safety_loop(m1, Tail(ms), in) :
               m1 \in {unbind(m, in)} })

\* a Builder whose mount check lets everything pass
mount_safety_check_off(m, in) == m

mount_safety_check(m, in) ==
    The({ IF ~Live(v) \/ ~v.chroot THEN v
        ELSE mount_safety_loop(Note(v, "call", "mount_safety_check"), mounts, in) : v \in {m} })

\* a mount command without fail_func: a failing mount only raises
mount_no_fail_func(m, x, ok, in) ==
    The({ IF ok \/ ~Live(m1) THEN m1 ELSE Raise(m1) :
          m1 \in {The({ Do(v, IF ok
                              THEN [Note(v, "mount", x) EXCEPT !.mnt[x] = @ + 1]
                              ELSE Note(v, "mount_failed", x)) : v \in {m} })} })

\* cmd(_cmd, fail_func=self.unbind): a failing mount runs unbind, then raises
mount(m, x, ok, in) ==
    The({ IF ok \/ ~Live(m1) THEN m1 ELSE Raise(unbind(m1, in)) :
          m1 \in {The({ Do(v, IF ok
                              THEN [Note(v, "mount", x) EXCEPT !.mnt[x] = @ + 1]
                              ELSE Note(v, "mount_failed", x)) : v \in {m} })} })

\* the commands of bind for self.mounts[i]
bind_one(m, i, in) ==
    IF MountSource(mounts[i]) = "maybe_tmpfs" /\ "var_tmpfs_portage" \notin keys
    THEN ensure_dirs(m, mounts[i])
    ELSE mount(ensure_dirs(m, mounts[i]), mounts[i], in.mountfail # i, in)

RECURSIVE bind_loop(_, _, _)
bind_loop(m, i, in) ==
    IF ~Live(m) \/ i > Len(mounts) THEN m
    ELSE The({ bind_loop(m1, i + 1, in) : m1 \in {bind_one(m, i, in)} })

bind(m, in) == The({ bind_loop(v, 1, in) : v \in {m} })

\* ------------------------------------------------- cleaning
clear_autoresume(m) ==
    IF "autoresume" \in options THEN clear_all(m, FALSE) ELSE m

remove_autoresume(m) ==
    IF "autoresume" \in options THEN clear_all(m, TRUE) ELSE m

clear_chroot(m) ==
    The({ Do(v, [Note(v, "clear_dir", "chroot") EXCEPT
                         !.chroot = TRUE, !.portdir = FALSE,
                         !.wiped = @ \/ AnyMounted(v)]) : v \in {m} })

remove_chroot(m) ==
    The({ Do(v, [Note(v, "remove_dir", "chroot") EXCEPT
                         !.chroot = FALSE, !.portdir = FALSE,
                         !.wiped = @ \/ AnyMounted(v)]) : v \in {m} })

clear_packages(m) ==
    IF "pkgcache" \in options
    THEN The({ Do(v, Note(v, "clear_dir", "pkgcache")) : v \in {m} })
    ELSE m

clear_kerncache(m) ==
    IF "kerncache" \in options
    THEN The({ Do(v, Note(v, "clear_dir", "kerncache")) : v \in {m} })
    ELSE m

\* the module neither defines nor imports countdown: the call raises NameError
countdown(m) == Raise(The({ Do(v, Note(v, "call", "countdown")) : v \in {m} }))

purge(m) ==
    IF {"purge", "purgeonly", "purgetmponly"} \cap options # {}
    THEN IF "purgetmponly" \notin options
         THEN clear_kerncache(clear_packages(clear_chroot(clear_autoresume(countdown(m)))))
         ELSE clear_kerncache(clear_chroot(clear_autoresume(countdown(m))))
    ELSE countdown(m)

\* ------------------------------------------------- construction
ensure_builds(m) ==
    The({ Do(v, [Note(v, "ensure_dirs", "builds") EXCEPT !.builds = TRUE]) : v \in {m} })

set_target_path(m) ==
    The({ IF "autoresume" \in options /\ is_enabled(v, "setup_target_path") THEN v
        ELSE ensure_builds(enable(v, "setup_target_path", None)) : v \in {m} })

\* __init__: set_autoresume_path creates the store, set_target_path follows
init(m) == set_target_path(AutoResume(m))

\* ------------------------------------------------- stages
\* an unpack that never trusts its resume point
unpack_always(m) == TRUE

\* the seed is extracted again
unpack_go(m) ==
    IF "autoresume" \in options
    THEN ~(/\ m.chroot
           /\ is_enabled(m, "unpack")
           /\ \/ source_path_hash = None
              \/ ReplaceNl(source_path_hash) = get(m, "unpack"))
    ELSE TRUE

\* an unpack that records the hash it found in the store
unpack_keeps_hash(m, in) ==
    The({ IF unpack_go(v)
          THEN enable(extract(ensure_dirs(clear_chroot(
                          mount_safety_check(v, in)), "chroot"), in.xok),
                      "unpack", get(v, "unpack"))
          ELSE v : v \in {m} })

\* an unpack that extracts over what the working root holds
unpack_no_clear(m, in) ==
    The({ IF unpack_go(v)
          THEN enable(extract(ensure_dirs(mount_safety_check(v, in), "chroot"),
                              in.xok),
                      "unpack", source_path_hash)
          ELSE v : v \in {m} })

unpack(m, in) ==
    The({ IF /\ "autoresume" \notin options
           /\ "seedcache" \notin options
           /\ source_path_hash = None
        THEN Raise(v)
        ELSE IF unpack_go(v)
        THEN enable(extract(ensure_dirs(clear_chroot(clear_autoresume(
                        mount_safety_check(v, in))), "chroot"), in.xok),
                    "unpack", source_path_hash)
        ELSE v : v \in {m} })

\* the snapshot is extracted again
unpack_snapshot_go(m) ==
    IF "snapcache" \in options
    THEN snapshot_path_hash # m.cache_hash
    ELSE ~(/\ "autoresume" \in options
           /\ m.portdir
           /\ is_enabled(m, "unpack_repo")
           /\ snapshot_path_hash = get(m, "unpack_repo"))

clear_portdir(m) ==
    The({ Do(v, [Note(v, "clear_dir", "portdir") EXCEPT
                         !.chroot = TRUE, !.portdir = TRUE]) : v \in {m} })

write_catalyst_hash(m) ==
    The({ Do(v, [Note(v, "write", "catalyst-hash") EXCEPT
                         !.cache_hash = snapshot_path_hash]) : v \in {m} })

\* unpack_info['destination']: the snapshot cache with snapcache, otherwise
\* the place of the portage tree in the working root
snapshot_destination ==
    IF "snapcache" \in options THEN "snapshot_cache" ELSE "portdir"

\* the directory the coming extract call writes into
extract_into(m, dest) ==
    IF Live(m) THEN [m EXCEPT !.trace = Append(@, <<"destination", dest>>)] ELSE m

unpack_snapshot(m, in) ==
    The({ IF ~unpack_snapshot_go(v) THEN v
        ELSE IF "snapcache" \in options
        THEN write_catalyst_hash(extract(extract_into(clear_portdir(v),
                                                      snapshot_destination), in.xok))
        ELSE enable(extract(extract_into(clear_portdir(v), snapshot_destination),
                            in.xok),
                    "unpack_repo", snapshot_path_hash) : v \in {m} })

setup_confdir(m, in) ==
    The({ IF "autoresume" \in options /\ is_enabled(v, "setup_confdir") THEN v
        ELSE IF "portage_confdir" \in keys
        THEN enable(cmd(ensure_dirs(v, "port_conf"), "rsync", in.cmdok),
                    "setup_confdir", None)
        ELSE v : v \in {m} })

portage_overlay(m, in) ==
    IF "portage_overlay" \in keys
    THEN cmd(ensure_dirs(m, "local_overlay"), "cp", in.cmdok)
    ELSE m

base_dirs(m, in) == m

\* write_make_conf: an OSError while writing make.conf
write_make_conf(m, ok) ==
    The({ Do(v, IF ok THEN Note(v, "write", "make.conf")
                     ELSE [Note(v, "write_failed", "make.conf") EXCEPT !.exc = TRUE]) : v \in {m} })

copy_resolv_conf(m) == The({ Do(v, Note(v, "copy", "resolv.conf")) : v \in {m} })

\* a chroot_setup that forgets its resume point
chroot_setup_unrecorded(m, in) ==
    The({ IF "autoresume" \in options /\ is_enabled(v, "chroot_setup") THEN v
        ELSE write_make_conf(copy_resolv_conf(v), in.cmdok) : v \in {m} })

\* self.settings[X] = self.makeconf[X] for the variables X that the make.conf
\* of the working root defines (CBUILD, CHOST, CFLAGS, ...)
settings_from_makeconf(m, defined) ==
    IF Live(m) /\ defined
    THEN [m EXCEPT !.trace = Append(@, <<"settings", "CFLAGS">>)]
    ELSE m

chroot_setup(m, in) ==
    The({ IF "autoresume" \in options /\ is_enabled(v, "chroot_setup") THEN v
          ELSE enable(write_make_conf(copy_resolv_conf(v), in.cmdok),
                      "chroot_setup", None) :
          v \in {settings_from_makeconf(m, in.makeconf)} })

setup_environment(m, in) == m

\* except CatalystError: self.unbind(); raise CatalystError(...)
abort_stage(m, in) ==
    The({ IF v.alive /\ v.exc THEN Raise(unbind(Caught(v), in)) ELSE v : v \in {m} })

run_local(m, in) ==
    The({ IF "autoresume" \in options /\ is_enabled(v, "run_local") THEN v
        ELSE IF controller
        THEN abort_stage(enable(cmd(v, "run", in.cmdok), "run_local", None), in)
        ELSE v : v \in {m} })

preclean(m, in) ==
    The({ IF "autoresume" \in options /\ is_enabled(v, "preclean") THEN v
        ELSE IF controller
        THEN abort_stage(enable(cmd(v, "preclean", in.cmdok), "preclean", None), in)
        ELSE v : v \in {m} })

clear_cleanables(m) ==
    The({ IF "autoresume" \in options /\ is_enabled(v, "clean") THEN v
        ELSE The({ Do(w, Note(w, "clear_path", "cleanables")) : w \in {v} }) : v \in {m} })

\* cmd(['find', stage_path + '/etc', ...]) when that directory exists
find_etc(m, ok) == The({ IF v.chroot THEN cmd(v, "find", ok) ELSE v : v \in {m} })

clean(m, in) ==
    IF controller
    THEN enable(cmd(find_etc(write_make_conf(clear_cleanables(m), TRUE), in.cmdok),
                    "clean", in.cmdok),
                "clean", None)
    ELSE find_etc(write_make_conf(clear_cleanables(m), TRUE), in.cmdok)

ensure_dirs_target(m) == The({ Do(v, Note(v, "ensure_dirs", "target")) : v \in {m} })

\* log.warning("Couldn't create stage tarball: %s", target_filename)
warning(m) == The({ IF Live(v) THEN [v EXCEPT !.warned = TRUE] ELSE v : v \in {m} })

gen_digests(m) == The({ Do(v, Note(v, "write", "digests")) : v \in {m} })

capture(m, in) ==
    The({ IF "autoresume" \in options /\ is_enabled(v, "capture") THEN v
        ELSE IF in.xok
        THEN enable(gen_digests(compress(ensure_dirs_target(v), TRUE)), "capture", None)
        ELSE warning(compress(ensure_dirs_target(v), FALSE)) : v \in {m} })

\* ------------------------------------------------- kernels
\* "build_kernel_" + kname
KernelCkpt(kname) ==
    CASE kname = "gentoo" -> "build_kernel_gentoo"
      [] kname = "vanilla" -> "build_kernel_vanilla"

\* the controller's command line 'kernel', kname
KernelCmd(kname) ==
    CASE kname = "gentoo" -> "kernel gentoo"
      [] kname = "vanilla" -> "kernel vanilla"

\* settings["boot/kernel"] as a list
KernelList(names) ==
    (IF "gentoo" \in names THEN <<"gentoo">> ELSE <<>>)
        \o (IF "vanilla" \in names THEN <<"vanilla">> ELSE <<>>)

\* shutil.copy of the kernel config: done, or IOError
copy_config(m, ok) ==
    The({ Do(v, Note(v, IF ok THEN "copy" ELSE "copy_failed", "kernel-config")) :
          v \in {m} })

\* _copy_kernel_config: a missing file runs unbind and raises, an IOError of
\* the copy runs unbind and goes on
copy_kernel_config(m, kname, in) ==
    IF <<"boot/kernel", kname, "config">> \notin myspec THEN m
    ELSE IF in.cfg = "missing" THEN Raise(unbind(m, in))
    ELSE IF in.cfg = "ioerror" THEN unbind(copy_config(m, FALSE), in)
    ELSE copy_config(m, TRUE)

copy_initramfs_overlay(m, kname, in) ==
    IF <<"boot/kernel", kname, "initramfs_overlay">> \in myspec
    THEN cmd(ensure_dirs(m, "initramfs_overlay"), "cp", TRUE)
    ELSE m

clear_initramfs_overlay(m, kname) ==
    IF <<"boot/kernel", kname, "initramfs_overlay">> \in myspec
    THEN The({ Do(v, Note(v, "clear_dir", "initramfs_overlay")) : v \in {m} })
    ELSE m

\* _build_kernel(kname); after the kernel command it only asks is_enabled
build_one_kernel(m, kname, in) ==
    The({ IF "autoresume" \in options /\ is_enabled(v, KernelCkpt(kname)) THEN v
          ELSE cmd(clear_initramfs_overlay(
                       cmd(copy_initramfs_overlay(
                               copy_kernel_config(v, kname, in), kname, in),
                           KernelCmd(kname), in.bad # kname),
                       kname),
                   "post-kmerge", TRUE) : v \in {m} })

RECURSIVE build_kernel_loop(_, _, _)
\* for kname in mynames: self._build_kernel(kname = kname)
build_kernel_loop(m, mynames, in) ==
    IF mynames = <<>> THEN m
    ELSE The({ build_kernel_loop(v, Tail(mynames), in) :
               v \in {build_one_kernel(m, Head(mynames), in)} })

build_kernel(m, in) ==
    The({ IF "autoresume" \in options /\ is_enabled(v, "build_kernel") THEN v
          ELSE IF <<"boot/kernel">> \notin myspec THEN v
          ELSE abort_stage(enable(build_kernel_loop(cmd(v, "pre-kmerge", in.prek),
                                                   KernelList(boot_kernel), in),
                                  "build_kernel", None), in) : v \in {m} })

\* getattr(self, x)()
Stage(x, m, in) ==
    CASE x = "unpack" -> unpack(m, in)
      [] x = "unpack_snapshot" -> unpack_snapshot(m, in)
      [] x = "setup_confdir" -> setup_confdir(m, in)
      [] x = "portage_overlay" -> portage_overlay(m, in)
      [] x = "base_dirs" -> base_dirs(m, in)
      [] x = "bind" -> bind(m, in)
      [] x = "chroot_setup" -> chroot_setup(m, in)
      [] x = "setup_environment" -> setup_environment(m, in)
      [] x = "run_local" -> run_local(m, in)
      [] x = "preclean" -> preclean(m, in)
      [] x = "unbind" -> unbind(m, in)
      [] x = "clean" -> clean(m, in)
      [] x = "capture" -> capture(m, in)
      [] x = "clear_autoresume" -> clear_autoresume(m)
      [] x = "remove_autoresume" -> remove_autoresume(m)
      [] x = "remove_chroot" -> remove_chroot(m)
      [] x = "build_kernel" -> build_kernel(m, in)

\* ------------------------------------------------- Builder.run / _run
Return(m, r) == The({ IF Live(v) THEN [v EXCEPT !.ret = r] ELSE v : v \in {m} })

\* if "clear-autoresume" in options: self.clear_autoresume()
run_clear(m) ==
    IF "clear-autoresume" \in options THEN clear_autoresume(m) ELSE m

\* a _run that clears the checkpoints before it checks the mounts
run_prologue_clears_first(m, in) ==
    mount_safety_check(run_clear(kill_chroot_pids(m, in)), in)

\* _run up to the loop over the action sequence
run_prologue(m, in) ==
    IF "purgetmponly" \in options
    THEN Return(purge(run_clear(mount_safety_check(kill_chroot_pids(m, in), in))), "none")
    ELSE IF "purgeonly" \in options /\ "purge" \in options
    THEN purge(purge(run_clear(mount_safety_check(kill_chroot_pids(m, in), in))))
    ELSE IF "purgeonly" \in options \/ "purge" \in options
    THEN purge(run_clear(mount_safety_check(kill_chroot_pids(m, in), in)))
    ELSE run_clear(mount_safety_check(kill_chroot_pids(m, in), in))

\* one turn of the loop: try: getattr(self, x)()
run_stage(m, x, in) == Stage(x, [m EXCEPT !.ran = Append(@, x)], in)

\* a Builder that returns False without unbind
run_cleanup_bare(m, in) == Return(m, "false")

\* a Builder that drops the resume points when a run fails
run_cleanup_clears(m, in) == Return(clear_all(unbind(m, in), FALSE), "false")

\* if failure: self.unbind(); return False
run_cleanup(m, in) == Return(unbind(m, in), "false")

\* ------------------------------------------------- inputs of a step
Outcomes == {"ok", "retry", "fail"}

Mounted == { x \in Range(mounts) : mnt[x] > 0 }

\* how each umount of a step ends: first attempt, retry, or not at all
OutsFor(S) ==
    { f \in [Range(mounts) -> Outcomes] : \A x \in Range(mounts) \ S : f[x] = "ok" }

Inputs(S, kills, cmds, mfs, xs) ==
    { [kill |-> k, out |-> o, killok |-> ko, cmdok |-> c, mountfail |-> f, xok |-> x] :
        k \in 0..MaxKill, o \in OutsFor(S), ko \in kills, c \in cmds, f \in mfs, x \in xs }

Before(i) == { mounts[j] : j \in 1..(i - 1) }

StageInputs(x) ==
    CASE x = "unpack" -> Inputs(Mounted, BOOLEAN, {TRUE}, {0}, BOOLEAN)
      [] x = "unpack_snapshot" -> Inputs({}, {TRUE}, {TRUE}, {0}, BOOLEAN)
      [] x \in {"setup_confdir", "portage_overlay", "clean"} ->
            Inputs({}, {TRUE}, BOOLEAN, {0}, {TRUE})
      [] x = "chroot_setup" ->
            { [makeconf |-> mc] @@ in :
                in \in Inputs({}, {TRUE}, BOOLEAN, {0}, {TRUE}), mc \in BOOLEAN }
      [] x = "bind" ->
            UNION { Inputs(Before(f), BOOLEAN, {TRUE}, {f}, {TRUE}) : f \in 0..Len(mounts) }
      [] x \in {"run_local", "preclean"} -> Inputs(Mounted, BOOLEAN, BOOLEAN, {0}, {TRUE})
      [] x = "unbind" -> Inputs(Mounted, BOOLEAN, {TRUE}, {0}, {TRUE})
      [] x = "capture" -> Inputs({}, {TRUE}, {TRUE}, {0}, BOOLEAN)
      [] x = "build_kernel" ->
            { [cfg |-> c, prek |-> p, bad |-> b] @@ in :
                in \in Inputs(Mounted, BOOLEAN, {TRUE}, {0}, {TRUE}),
                c \in {"ok", "missing", "ioerror"}, p \in BOOLEAN,
                b \in KernelNames \cup {"none"} }
      [] OTHER -> Inputs({}, {TRUE}, {TRUE}, {0}, {TRUE})

\* ------------------------------------------------- the processes
\* the options and keys a run of the pipeline reads
RunOptions == Options \ {"pkgcache", "kerncache"}

RunKeys == {"portage_confdir", "portage_overlay"}

Configs ==
    { c \in (SUBSET RunOptions) \X (SUBSET RunKeys) :
        Cardinality(c[1] \ {"autoresume"}) + Cardinality(c[2]) <= MaxOpts }

Init ==
    /\ \E c \in Configs :
        /\ options = c[1]
        /\ keys = c[2]
        /\ mounts = Prefix(InitMounts(c[1], c[2], TRUE), MaxMounts)
        /\ action_sequence = set_default_action_sequence(c[1])
    /\ controller \in BOOLEAN
    /\ myspec = {}
    /\ boot_kernel = {}
    /\ valid_values = ValidValues
    /\ verdict = ""
    /\ lock = 0
    /\ proc = [p \in 1..MaxProcs |-> [pc |-> "none", pos |-> 0, result |-> ""]]
    /\ actor = 0
    /\ source_path_hash = None
    /\ snapshot_path_hash = None
    /\ pc = "none"
    /\ pos = 0
    /\ result = ""
    /\ runs = 0
    /\ resume = [c \in CkptNames |-> Off]
    /\ store = FALSE
    /\ chroot = FALSE
    /\ portdir = FALSE
    /\ cache_hash = None
    /\ builds = FALSE
    /\ mnt = [x \in MountNames |-> 0]
    /\ source_digest = <<HexDigits[1]>>
    /\ snapshot_digest = <<HexDigits[1]>>
    /\ wiped = FALSE
    /\ ran = <<>>
    /\ warned = FALSE
    /\ log = <<>>
    /\ trace = <<>>
    /\ named = {}

\* the process is gone: what it held in memory is lost, the disk stays
Killed(m) ==
    /\ Commit([m EXCEPT !.log = <<>>, !.trace = <<>>, !.named = {},
                 !.ran = <<>>, !.warned = FALSE])
    /\ pc' = "none"
    /\ pos' = 0
    /\ result' = "killed"
    /\ source_path_hash' = None
    /\ snapshot_path_hash' = None

\* the archive is as it was, or was replaced by one with the next digest
Replaced(d) ==
    {d} \cup { <<HexDigits[i + 1]>> : i \in { j \in 1..(MaxHash - 1) : d = <<HexDigits[j]>> } }

\* Builder(settings): a new process on the same disk
Construct ==
    /\ pc \in {"none", "done"}
    /\ runs < MaxRuns
    /\ runs' = runs + 1
    /\ UNCHANGED <<cfgvars, argvars, lockvars>>
    /\ \E d \in Replaced(source_digest), sd \in Replaced(snapshot_digest),
          isdir \in (IF "seedcache" \in options THEN BOOLEAN ELSE {FALSE}),
          k \in 0..MaxKill :
        \E m \in {init([Machine(k) EXCEPT !.ran = <<>>, !.warned = FALSE])} :
            /\ source_digest' = d
            /\ snapshot_digest' = sd
            /\ IF m.alive
               THEN /\ Commit(m)
                    /\ pc' = "built"
                    /\ pos' = 0
                    /\ result' = ""
                    /\ source_path_hash' = IF isdir THEN None ELSE d
                    /\ snapshot_path_hash' = sd
               ELSE Killed(m)

\* Builder.run up to the first stage
Begin ==
    /\ pc = "built"
    /\ UNCHANGED <<cfgvars, argvars, lockvars, runs, envvars>>
    /\ \E in \in Inputs(Mounted, BOOLEAN, {TRUE}, {0}, {TRUE}) :
        \E m \in {run_prologue(Machine(in.kill), in)} :
            IF ~m.alive THEN Killed(m)
            ELSE /\ Commit(m)
                 /\ pc' = IF m.exc \/ m.ret # "" THEN "done" ELSE "stages"
                 /\ result' = IF m.exc THEN "raised" ELSE m.ret
                 /\ pos' = IF m.exc \/ m.ret # "" THEN 0 ELSE 1
                 /\ UNCHANGED <<source_path_hash, snapshot_path_hash>>

\* a loop that goes on with the next stage after an exception
Except_goes_on(m, x) ==
    /\ Commit(Note(Caught(m), "except", x))
    /\ pc' = IF pos = Len(action_sequence) THEN "done" ELSE "stages"
    /\ result' = IF pos = Len(action_sequence) THEN "true" ELSE result
    /\ pos' = pos + 1
    /\ UNCHANGED <<source_path_hash, snapshot_path_hash>>

\* except Exception: failure = True; break
Except(m, x) ==
    /\ Commit(Note(Caught(m), "except", x))
    /\ pc' = "cleanup"
    /\ UNCHANGED <<pos, result, source_path_hash, snapshot_path_hash>>

\* the loop of _run executes stage x
RunStage(x) ==
    /\ pc = "stages"
    /\ action_sequence[pos] = x
    /\ UNCHANGED <<cfgvars, argvars, lockvars, runs, envvars>>
    /\ \E in \in StageInputs(x) :
        \E m \in {run_stage(Machine(in.kill), x, in)} :
            IF ~m.alive THEN Killed(m)
            ELSE IF m.exc THEN Except(m, x)
            ELSE /\ Commit(m)
                 /\ pc' = IF pos = Len(action_sequence) THEN "done" ELSE "stages"
                 /\ result' = IF pos = Len(action_sequence) THEN "true" ELSE result
                 /\ pos' = pos + 1
                 /\ UNCHANGED <<source_path_hash, snapshot_path_hash>>

\* after a failed stage: unbind, return False
Cleanup ==
    /\ pc = "cleanup"
    /\ UNCHANGED <<cfgvars, argvars, lockvars, runs, envvars>>
    /\ \E in \in Inputs(Mounted, BOOLEAN, {TRUE}, {0}, {TRUE}) :
        \E m \in {run_cleanup(Machine(in.kill), in)} :
            IF ~m.alive THEN Killed(m)
            ELSE /\ Commit(m)
                 /\ pc' = "done"
                 /\ result' = IF m.exc THEN "raised" ELSE m.ret
                 /\ UNCHANGED <<pos, source_path_hash, snapshot_path_hash>>

Stage_unpack == RunStage("unpack")
Stage_unpack_snapshot == RunStage("unpack_snapshot")
Stage_setup_confdir == RunStage("setup_confdir")
Stage_portage_overlay == RunStage("portage_overlay")
Stage_base_dirs == RunStage("base_dirs")
Stage_bind == RunStage("bind")
Stage_chroot_setup == RunStage("chroot_setup")
Stage_setup_environment == RunStage("setup_environment")
Stage_run_local == RunStage("run_local")
Stage_preclean == RunStage("preclean")
Stage_unbind == RunStage("unbind")
Stage_clean == RunStage("clean")
Stage_capture == RunStage("capture")
Stage_clear_autoresume == RunStage("clear_autoresume")
Stage_remove_autoresume == RunStage("remove_autoresume")
Stage_remove_chroot == RunStage("remove_chroot")

Next ==
    \/ Construct
    \/ Begin
    \/ Stage_unpack
    \/ Stage_unpack_snapshot
    \/ Stage_setup_confdir
    \/ Stage_portage_overlay
    \/ Stage_base_dirs
    \/ Stage_bind
    \/ Stage_chroot_setup
    \/ Stage_setup_environment
    \/ Stage_run_local
    \/ Stage_preclean
    \/ Stage_unbind
    \/ Stage_clean
    \/ Stage_capture
    \/ Stage_clear_autoresume
    \/ Stage_remove_autoresume
    \/ Stage_remove_chroot
    \/ Cleanup

Spec == Init /\ [][Next]_vars

\* ------------------------------------------------- properties
Logged(kind, what) == <<kind, what>> \in Range(log)

\* the last step ended in the except clause of the loop
StageRaised == log # <<>> /\ log[Len(log)][1] = "except"

\* the run has failed: a stage raised and the run has not ended well
RunFailed == pc = "cleanup" \/ (pc = "done" /\ result \in {"false", "raised"} /\ ran # <<>>)

\* C1: the working root is never cleared or removed (clear_chroot,
\* remove_chroot) while a target of the mount table is a mount point
C1_NoWipeWhileMounted == ~wiped

\* the working root was removed at the end of a run that had bound the mounts
C1_Witness ==
    /\ Logged("remove_dir", "chroot")
    /\ "bind" \in Range(ran)
    /\ ~wiped

\* C2: when the stage at position pos raises, the loop stops there: the
\* stages executed in the run are exactly the first pos of the action
\* sequence, and no further stage is executed in the failed run
C2_FailStop ==
    [][ /\ (pc = "stages" /\ StageRaised') =>
            /\ pc' = "cleanup"
            /\ pos' = pos
            /\ ran' = SubSeq(action_sequence, 1, pos)
        /\ RunFailed => ran' \in {ran, <<>>} ]_vars

\* a stage raised while stages were left in the action sequence
C2_Witness ==
    /\ pc = "cleanup"
    /\ StageRaised
    /\ pos < Len(action_sequence)

\* C3: after a stage raised, the next thing the run does is unbind, and the
\* run reports its failure (False, or the exception of unbind) only after it
C3_UnbindBeforeFailure ==
    [][ (pc = "cleanup" /\ pc' # "none") \/ (pc' = "done" /\ result' = "false") =>
            /\ pc = "cleanup"
            /\ pc' = "done"
            /\ result' \in {"false", "raised"}
            /\ log' # <<>>
            /\ Head(log') = <<"call", "unbind">> ]_vars

\* a run that had bound the mounts returned False after unbind
C3_Witness ==
    /\ pc = "done"
    /\ result = "false"
    /\ "bind" \in Range(ran)
    /\ Logged("call", "unbind")


\* the stage the loop of _run is about to execute
Current == action_sequence[pos]

\* the checkpoint a stage records under
Ckpt(x) == IF x = "unpack_snapshot" THEN "unpack_repo" ELSE x

\* a step of the loop that returned from its stage without raising
StageReturned == pc = "stages" /\ pc' \in {"stages", "done"}

\* C4: a failing stage and the cleanup after it leave every checkpoint that
\* was satisfied just before the failing stage started as it was, data included
C4_FailureKeepsCheckpoints ==
    [][ (pc = "stages" /\ pc' = "cleanup") \/ (pc = "cleanup" /\ pc' = "done") =>
            \A c \in CkptNames : resume[c].on => resume'[c] = resume[c] ]_vars

\* run_local failed and the run returned False with the checkpoints of the
\* earlier stages still satisfied
C4_Witness ==
    /\ pc = "done"
    /\ result = "false"
    /\ ran # <<>>
    /\ ran[Len(ran)] = "run_local"
    /\ resume["unpack"].on
    /\ resume["unpack"].data = source_path_hash
    /\ resume["chroot_setup"].on

\* the checkpoint of stage x is satisfied and its extra validity condition holds
Satisfied(x) ==
    CASE x = "unpack" ->
            /\ resume["unpack"].on
            /\ chroot
            /\ source_path_hash \in {None, resume["unpack"].data}
      [] x = "unpack_snapshot" ->
            /\ resume["unpack_repo"].on
            /\ portdir
            /\ snapshot_path_hash = resume["unpack_repo"].data
      [] OTHER -> Ckpt(x) \in CkptNames /\ resume[Ckpt(x)].on

\* C5: with autoresume set, a stage reached with its checkpoint satisfied
\* (and its validity condition true) is skipped: the step changes no file
\* and runs no command
C5_SatisfiedIsSkipped ==
    [][ /\ pc = "stages"
        /\ pc' \in {"stages", "cleanup", "done"}
        /\ "autoresume" \in options
        /\ Satisfied(Current)
        => log' = <<>> ]_vars

Records(x) ==
    \/ x \in {"unpack", "chroot_setup"}
    \/ x = "unpack_snapshot" /\ "snapcache" \notin options
    \/ x = "setup_confdir" /\ "portage_confdir" \in keys
    \/ x \in {"run_local", "preclean", "clean"} /\ controller

C7_CheckpointAfterWork ==
    /\ resume["setup_target_path"].on => builds
    /\ \A i \in DOMAIN log :
          (log[i][1] = "enable" /\ log[i][2] # "setup_target_path") => i = Len(log)

\* C8: when extract reports failure the stage fails and records no checkpoint
C8_ExtractFailureFailsStage ==
    Logged("extract", "fail") =>
        /\ pc = "cleanup"
        /\ ~Logged("enable", "unpack")
        /\ ~Logged("enable", "unpack_repo")

\* C9: once compression has failed the run is a failed run, and neither
\* remove_autoresume nor remove_chroot is executed in it
C9_CompressFailureFailsRun ==
    warned =>
        /\ RunFailed
        /\ "remove_autoresume" \notin Range(ran)
        /\ "remove_chroot" \notin Range(ran)

NoExtract(l) == \A i \in DOMAIN l : l[i][1] # "extract"

Count(seq, kind) == Cardinality({ i \in DOMAIN seq : seq[i][1] = kind })

\* the hash of the archive stage x transfers, as this process computed it
NewHash(x) == IF x = "unpack" THEN source_path_hash ELSE snapshot_path_hash

\* the hash stage x compares with: the checkpoint's data, or the content of
\* the snapshot cache's catalyst-hash file
Recorded(x) ==
    IF x = "unpack" THEN get(Machine(0), "unpack")
    ELSE IF "snapcache" \in options THEN cache_hash
    ELSE get(Machine(0), "unpack_repo")

\* C11: a transfer stage (unpack, unpack_snapshot) that is reached with a
\* computed hash different from the recorded one, or with none recorded, and
\* returns, has made exactly one extract call and has recorded the new hash
C11_DifferingHashTransfers ==
    [][ \A x \in {"unpack", "unpack_snapshot"} :
            /\ StageReturned
            /\ Current = x
            /\ NewHash(x) # None
            /\ NewHash(x) # Recorded(x)
            => /\ Count(log', "extract") = 1
               /\ Recorded(x)' = NewHash(x) ]_vars

\* a second run under autoresume found the seed replaced, dropped the
\* checkpoints and the working root, and extracted the new seed
C11_Witness ==
    /\ pc = "stages"
    /\ runs = 2
    /\ ran = <<"unpack">>
    /\ "autoresume" \in options
    /\ Logged("clear_all", "keep")
    /\ Logged("extract", "ok")
    /\ source_path_hash = <<HexDigits[2]>>
    /\ resume["unpack"] = [on |-> TRUE, data |-> source_path_hash]

\* ------------------------------------------------- clearing the working root
\* C12: a step that clears the working root (clear_chroot in unpack or in
\* purge) leaves no checkpoint satisfied that was recorded before the
\* clearing; unpack records its own checkpoint after it
C12_ClearingDropsCheckpoints ==
    [][ (\E i \in DOMAIN log' : log'[i] = <<"clear_dir", "chroot">>) =>
            \A c \in CkptNames \ {"unpack"} : ~resume'[c].on ]_vars

\* ------------------------------------------------- unbind
\* the k-th thing the last step did was an unmount attempt
IsUmount(k) == trace[k][1] \in {"umount", "umount_failed"}

\* positions i < j of the trace belong to the same call of unbind
SameCall(i, j) == \A k \in (i + 1)..j : trace[k] # <<"call", "unbind">>

\* where bind finds target x in self.mounts
MountIndex(x) == CHOOSE k \in 1..Len(mounts) : mounts[k] = x

\* C13: within one call of unbind the unmount attempts go through
\* self.mounts backwards: an entry that bind processes later is never
\* unmounted after an entry that bind processes earlier
C13_UnmountInReverse ==
    \A i, j \in DOMAIN trace :
        (i < j /\ IsUmount(i) /\ IsUmount(j) /\ SameCall(i, j)) =>
            MountIndex(trace[i][2]) >= MountIndex(trace[j][2])

\* one call of unbind unmounted the second entry of self.mounts, then the first
C13_Witness ==
    /\ Len(mounts) >= 2
    /\ \E i, j \in DOMAIN trace :
        /\ i < j
        /\ SameCall(i, j)
        /\ trace[i] = <<"umount", mounts[2]>>
        /\ trace[j] = <<"umount", mounts[1]>>

\* ------------------------------------------------- rollback of bind
\* the step just taken was bind and one of its mount commands failed
BindFailed ==
    /\ pc = "stages"
    /\ Current = "bind"
    /\ \E i \in DOMAIN trace' : trace'[i][1] = "mount_failed"

\* right after the failed mount command comes the call of unbind
UnbindFollows(tr) ==
    \A i \in DOMAIN tr :
        tr[i][1] = "mount_failed" => (i < Len(tr) /\ tr[i + 1] = <<"call", "unbind">>)

\* no command of unbind stood in its way: the kill script did not fail and
\* no target failed both of its unmount attempts
Unhindered(tr) ==
    /\ \A i \in DOMAIN tr : tr[i] # <<"cmd_failed", "kill-chroot-pids">>
    /\ \A x \in MountNames :
        Cardinality({ i \in DOMAIN tr : tr[i] = <<"umount_failed", x>> }) < 2

FirstAttempt(i) ==
    /\ IsUmount(i)
    /\ ~\E k \in 1..(i - 1) : IsUmount(k) /\ trace[k][2] = trace[i][2] /\ SameCall(k, i)

\* the unmount attempts on the target of position i from i on, in the same call
Attempts(i) ==
    { j \in i..Len(trace) : IsUmount(j) /\ trace[j][2] = trace[i][2] /\ SameCall(i, j) }

\* C15: in one call of unbind a failed first unmount attempt on a target is
\* followed by the kill of the processes in the working root and then by
\* one more attempt on the same target, and no target gets a third attempt
C15_KillThenRetryOnce ==
    \A i \in DOMAIN trace :
        FirstAttempt(i) =>
            /\ Cardinality(Attempts(i)) <= 2
            /\ trace[i][1] = "umount_failed" =>
                /\ i + 2 <= Len(trace)
                /\ trace[i + 1] = <<"cmd", "kill-chroot-pids">>
                /\ Attempts(i) = {i, i + 2}

\* ------------------------------------------------- the error of unbind
\* the step just taken was a call of unbind by the pipeline itself, the
\* unbind stage or the cleanup of a failed run, and the process lived on
UnbindStep ==
    \/ pc = "stages" /\ Current = "unbind" /\ pc' # "none"
    \/ pc = "cleanup" /\ pc' = "done"

\* that call of unbind raised
UnbindRaised ==
    \/ pc = "stages" /\ pc' = "cleanup"
    \/ pc = "cleanup" /\ result' = "raised"

\* the targets that failed both unmount attempts
FailedTwice(tr) ==
    { x \in MountNames : Cardinality({ i \in DOMAIN tr : tr[i] = <<"umount_failed", x>> }) = 2 }

\* the targets with an unmount attempt
Attempted(tr) ==
    { x \in MountNames : \E i \in DOMAIN tr : tr[i][1] \in {"umount", "umount_failed"} /\ tr[i][2] = x }

\* C16: a call of unbind attempts every mounted entry of the mount list,
\* whatever happened to the entries before it, and raises if and only if
\* some target failed both of its attempts
C16_UnbindGoesOnAndRaisesOnce ==
    [][ UnbindStep =>
            /\ Mounted \subseteq Attempted(trace')
            /\ UnbindRaised <=> FailedTwice(trace') # {} ]_vars

\* C17: the error unbind raises after failed unmounts names exactly the
\* targets that failed both of their unmount attempts
C17_ErrorNamesFailedTargets ==
    [][ UnbindStep /\ UnbindRaised /\ FailedTwice(trace') # {} =>
            named' = FailedTwice(trace') ]_vars

\* ------------------------------------------------- a target stays mounted
\* the step cleared or removed the working root
ChrootCleared(tr) ==
    \E i \in DOMAIN tr : tr[i] \in {<<"clear_dir", "chroot">>, <<"remove_dir", "chroot">>}

\* the run failed in its unbind stage, which left a target mounted after the retry
UnbindStageFailed ==
    /\ pc = "cleanup"
    /\ ran # <<>>
    /\ ran[Len(ran)] = "unbind"
    /\ FailedTwice(trace) # {}

\* C18 as stated: when a target is still mounted after the retry, in the
\* unbind stage or in the cleanup of a failed run, the run ends with an error
\* raised to the caller, and the working root is neither cleared nor removed
\* afterwards in that run
C18_StillMountedRaises ==
    [][ /\ (pc = "cleanup" /\ UnbindStep /\ FailedTwice(trace') # {}) => result' = "raised"
        /\ (UnbindStageFailed /\ pc' = "done") => result' = "raised"
        /\ pc = "cleanup" => ~ChrootCleared(trace') ]_vars

\* C18: when a target is still mounted after the retry in the unbind stage,
\* the stage raises and the run fails: its cleanup returns False or raises;
\* when that happens in the cleanup, the run ends with the error raised to
\* the caller; the working root is neither cleared nor removed afterwards
C18_StillMountedFailsRun ==
    [][ /\ (UnbindStep /\ FailedTwice(trace') # {}) =>
                IF pc = "stages" THEN pc' = "cleanup" ELSE result' = "raised"
        /\ (UnbindStageFailed /\ pc' = "done") => result' \in {"false", "raised"}
        /\ pc = "cleanup" => ~ChrootCleared(trace') ]_vars

\* the unbind stage failed, the unbind of the cleanup unmounted the target
\* and the run returned False
C18_Witness ==
    /\ pc = "done"
    /\ result = "false"
    /\ ran # <<>>
    /\ ran[Len(ran)] = "unbind"
    /\ \E i \in DOMAIN trace : trace[i][1] = "umount"
    /\ Mounted = {}
    /\ chroot

\* ------------------------------------------------- mount_safety_check
\* the last step called mount_safety_check with the working root present
SafetyChecked == \E i \in DOMAIN trace : trace[i] = <<"call", "mount_safety_check">>

\* the calls of unbind the last step made
UnbindCalls == { i \in DOMAIN trace : trace[i] = <<"call", "unbind">> }

C20_UnbindSkipsUnmounted ==
    [][ UnbindStep =>
            /\ Attempted(trace') \subseteq Mounted
            /\ \A x \in MountNames \ Mounted : mnt'[x] = mnt[x]
            /\ (Mounted = {}) => (~UnbindRaised /\ trace' = << <<"call", "unbind">> >>) ]_vars

\* the cleanup of a failed run found only the last entry of the mount list
\* mounted: unbind unmounted it and passed over the first entry
C20_Witness ==
    /\ pc = "done"
    /\ result = "false"
    /\ Len(mounts) >= 2
    /\ trace = << <<"call", "unbind">>, <<"umount", mounts[Len(mounts)]>> >>
    /\ Mounted = {}

\* ------------------------------------------------- the settings and the result
\* C28: no step of _run adds, removes or changes a key of self.settings
C28_SettingsImmutable ==
    \A i \in DOMAIN trace : trace[i][1] # "settings"

\* C29: Builder.run delivers a boolean on every outcome, and True only when
\* no stage of the action sequence failed
C29_ResultIsBoolean ==
    pc = "done" =>
        /\ result \in {"true", "false"}
        /\ result = "true" => ~warned

\* ------------------------------------ what __init__ computes from the settings
Procs == 1..MaxProcs

NotStarted == [pc |-> "none", pos |-> 0, result |-> ""]

\* no Builder yet, nothing on the disk
Blank ==
    /\ controller = TRUE
    /\ lock = 0
    /\ proc = [p \in Procs |-> NotStarted]
    /\ actor = 0
    /\ valid_values = ValidValues
    /\ verdict = ""
    /\ pc = "none"
    /\ pos = 0
    /\ result = ""
    /\ resume = [c \in CkptNames |-> Off]
    /\ store = FALSE
    /\ chroot = FALSE
    /\ portdir = FALSE
    /\ cache_hash = None
    /\ builds = FALSE
    /\ mnt = [x \in MountNames |-> 0]
    /\ source_digest = <<HexDigits[1]>>
    /\ snapshot_digest = <<HexDigits[1]>>
    /\ wiped = FALSE
    /\ ran = <<>>
    /\ warned = FALSE
    /\ log = <<>>
    /\ trace = <<>>
    /\ named = {}

\* The settings are any set of options and of optional keys; __init__ computes
\* the mount list and the action sequence from them.
ConfigInit ==
    /\ options \in SUBSET Options
    /\ keys \in SUBSET SettingKeys
    /\ mounts = <<>>
    /\ action_sequence = <<>>
    /\ myspec = {}
    /\ boot_kernel = {}
    /\ runs = 0
    /\ source_path_hash = None
    /\ snapshot_path_hash = None
    /\ Blank

SetActionSequence ==
    /\ action_sequence = <<>>
    /\ action_sequence' = set_default_action_sequence(options)
    /\ UNCHANGED <<options, keys, controller, mounts, argvars, lockvars, procvars,
                   diskvars, envvars>>

SetMounts ==
    /\ mounts = <<>>
    /\ \E linux \in BOOLEAN : mounts' = InitMounts(options, keys, linux)
    /\ UNCHANGED <<options, keys, controller, action_sequence, argvars, lockvars,
                   procvars, diskvars, envvars>>

ConfigNext == SetActionSequence \/ SetMounts

ConfigSpec == ConfigInit /\ [][ConfigNext]_vars

BaseStages ==
    <<"unpack", "unpack_snapshot", "setup_confdir", "portage_overlay",
      "base_dirs", "bind", "chroot_setup", "setup_environment", "run_local",
      "preclean", "unbind", "clean">>

\* C24: with purgeonly the action sequence is exactly <<remove_chroot>>,
\* whatever the other options are; without it the sequence starts with the
\* twelve base stages in their order
C24_PurgeonlyCollapses ==
    action_sequence # <<>> =>
        IF "purgeonly" \in options
        THEN action_sequence = <<"remove_chroot">>
        ELSE /\ Len(action_sequence) >= Len(BaseStages)
             /\ SubSeq(action_sequence, 1, Len(BaseStages)) = BaseStages

C24_Witness ==
    /\ action_sequence # <<>>
    /\ {"purgeonly", "keepwork", "fetch", "autoresume"} \subseteq options

Between(seq, a, b, c) ==
    \A i, j \in DOMAIN seq :
        i < j /\ seq[i] = a /\ seq[j] = c =>
            \E k \in DOMAIN seq : i < k /\ k < j /\ seq[k] = b

\* C25: what follows the base stages depends on the options alone: capture
\* iff fetch is not set, then clear_autoresume alone with keepwork, otherwise
\* remove_autoresume alone with seedcache, otherwise remove_autoresume and
\* remove_chroot; and wherever remove_chroot comes after bind there is an
\* unbind between them
C25_TailFollowsOptions ==
    action_sequence # <<>> =>
        /\ "purgeonly" \notin options =>
              SubSeq(action_sequence, Len(BaseStages) + 1, Len(action_sequence)) =
                  (IF "fetch" \notin options THEN <<"capture">> ELSE <<>>)
                  \o (IF "keepwork" \in options THEN <<"clear_autoresume">>
                      ELSE IF "seedcache" \in options THEN <<"remove_autoresume">>
                      ELSE <<"remove_autoresume", "remove_chroot">>)
        /\ Between(action_sequence, "bind", "unbind", "remove_chroot")

C25_Witness ==
    /\ action_sequence # <<>>
    /\ "fetch" \in options
    /\ options \cap {"purgeonly", "keepwork", "seedcache"} = {}
    /\ \E i, j \in DOMAIN action_sequence :
          /\ i < j
          /\ action_sequence[i] = "bind"
          /\ action_sequence[j] = "remove_chroot"

OddKeys ==
    RequiredValues \cup ConsumedKeys
        \cup { <<"portage_confdir">>, <<"boot/kernel">>, <<"no_such_key">> }
        \cup { <<"boot/kernel", x, "config">> : x \in KernelNames }

RECURSIVE UpTo(_, _)
\* the subsets of S with at most n elements
UpTo(S, n) ==
    IF n = 0 THEN {{}}
    ELSE { d \cup e : d \in UpTo(S, n - 1), e \in {{}} \cup { {k} : k \in S } }

Settings ==
    { (base \ d) \cup (d \ base) :
        base \in { RequiredValues \cup {<<"options">>},
                   RequiredValues \cup ConsumedKeys },
        d \in UpTo(OddKeys, MaxOdd) }

ArgInit ==
    /\ options = {}
    /\ keys = {}
    /\ mounts = Prefix(InitMounts({}, {}, TRUE), MaxMounts)
    /\ action_sequence = set_default_action_sequence({})
    /\ myspec = {}
    /\ boot_kernel = {}
    /\ runs = 0
    /\ source_path_hash = None
    /\ snapshot_path_hash = None
    /\ Blank

\* Builder(settings) from its first statement: the table is extended, the
\* settings are validated, then read
ArgConstruct ==
    /\ runs < MaxRuns
    /\ runs' = runs + 1
    /\ \E spec \in Settings :
       \E names \in (IF <<"boot/kernel">> \in spec
                     THEN (SUBSET KernelNames) \ {{}} ELSE {{}}) :
       \E valid \in {set_valid_build_kernel_vars(valid_values, spec, names)} :
          /\ myspec' = spec
          /\ boot_kernel' = names
          /\ valid_values' = valid
          /\ IF addl_arg_parse(spec, valid) # {}
             THEN /\ verdict' = "CatalystError"
                  /\ UNCHANGED <<diskvars, pc>>
             ELSE IF ~(ReadsBeforeStore \subseteq spec)
             THEN /\ verdict' = "KeyError"
                  /\ UNCHANGED <<diskvars, pc>>
             ELSE \E m \in {init([Machine(0) EXCEPT !.ran = <<>>, !.warned = FALSE])} :
                  /\ Commit(m)
                  /\ verdict' = IF ReadsAfterStore \subseteq spec
                                THEN "built" ELSE "KeyError"
                  /\ pc' = IF ReadsAfterStore \subseteq spec THEN "built" ELSE pc
    /\ UNCHANGED <<cfgvars, lockvars, envvars, source_path_hash,
                   snapshot_path_hash, pos, result>>

ArgNext == ArgConstruct

ArgSpec == ArgInit /\ [][ArgNext]_vars

Untouched ==
    /\ UNCHANGED <<resume, store, mnt, chroot>>
    /\ log' = <<>>
    /\ trace' = <<>>
    /\ pc' # "built"

\* C26: a configuration with a key outside the required and valid tables, or
\* without a required key, is rejected by the constructor with an error, and
\* no checkpoint, no mount and no stage has been touched by then
C26_InvalidSettingsRejected ==
    [][ \/ ~(myspec' \subseteq RequiredValues \cup valid_values')
        \/ ~(RequiredValues \subseteq myspec')
        => /\ verdict' = "CatalystError"
           /\ Untouched ]_vars

C26_Witness ==
    /\ verdict = "CatalystError"
    /\ <<"no_such_key">> \in myspec
    /\ ConsumedKeys \subseteq myspec
    /\ runs = 2

\* C27: the keys the Builder reads without a default are keys the validation
\* accepts: settings that hold the required keys and the keys the Builder
\* reads, and nothing else, are not rejected
C27_ConsumedKeysAccepted ==
    myspec = RequiredValues \cup ConsumedKeys => verdict # "CatalystError"

\* ------------------------------------- several processes on one chroot_path
\* Each process constructs a Builder from the same settings and calls run();
\* run() takes the lock on chroot_path + ".lock" around _run. The source files
\* do not change meanwhile, so every constructor computes the same hashes.
LockInit ==
    /\ options \in {{}, {"autoresume"}}
    /\ keys = {}
    /\ mounts = Prefix(InitMounts(options, keys, TRUE), MaxMounts)
    /\ action_sequence = set_default_action_sequence(options)
    /\ myspec = {}
    /\ boot_kernel = {}
    /\ runs = 0
    /\ source_path_hash = <<HexDigits[1]>>
    /\ snapshot_path_hash = <<HexDigits[1]>>
    /\ Blank

\* a lock that is granted whoever holds it
CanAcquire_always(l) == TRUE

\* InterProcessLock.acquire() returns only while no process holds the lock
CanAcquire(l) == l = 0

\* a lock that is kept when the with block is left
Released_never(l, p) == l

\* the with block is left, or the process holding the lock is gone
Released(l, p) == IF l = p THEN 0 ELSE l

Moved(p, to, at, res) ==
    /\ proc' = [proc EXCEPT ![p] = [pc |-> to, pos |-> at, result |-> res]]
    /\ actor' = p

LockFrame == UNCHANGED <<cfgvars, argvars, procvars, envvars>>

\* process p is killed: the disk stays, the lock goes with the process
LockKilled(p, m) ==
    /\ Commit([m EXCEPT !.log = <<>>, !.trace = <<>>, !.named = {},
                 !.ran = <<>>, !.warned = FALSE])
    /\ Moved(p, "killed", 0, "killed")
    /\ lock' = Released(lock, p)

\* process p: Builder(settings)
LockConstruct(p) ==
    /\ proc[p].pc = "none"
    /\ LockFrame
    /\ \E k \in 0..MaxKill :
        \E m \in {init([Machine(k) EXCEPT !.ran = <<>>, !.warned = FALSE])} :
            IF ~m.alive THEN LockKilled(p, m)
            ELSE /\ Commit(m)
                 /\ Moved(p, "built", 0, "")
                 /\ UNCHANGED lock

\* process p calls run() and asks for the lock
LockRun(p) ==
    /\ proc[p].pc = "built"
    /\ LockFrame
    /\ Moved(p, "waiting", 0, "")
    /\ Commit(Machine(0))
    /\ UNCHANGED lock

\* process p gets the lock and enters the with block
LockAcquire(p) ==
    /\ proc[p].pc = "waiting"
    /\ CanAcquire(lock)
    /\ LockFrame
    /\ lock' = p
    /\ Moved(p, "locked", 0, "")
    /\ Commit(Machine(0))

\* process p: _run up to the first stage
LockBegin(p) ==
    /\ proc[p].pc = "locked"
    /\ LockFrame
    /\ \E in \in Inputs(Mounted, BOOLEAN, {TRUE}, {0}, {TRUE}) :
        \E m \in {run_prologue(Machine(in.kill), in)} :
            IF ~m.alive THEN LockKilled(p, m)
            ELSE /\ Commit(m)
                 /\ IF m.exc \/ m.ret # ""
                    THEN /\ Moved(p, "done", 0, IF m.exc THEN "raised" ELSE m.ret)
                         /\ lock' = Released(lock, p)
                    ELSE /\ Moved(p, "stages", 1, "")
                         /\ UNCHANGED lock

\* process p: one stage of the loop of _run
LockStage(p) ==
    /\ proc[p].pc = "stages"
    /\ LockFrame
    /\ \E x \in {action_sequence[proc[p].pos]} :
       \E in \in StageInputs(x) :
        \E m \in {run_stage(Machine(in.kill), x, in)} :
            IF ~m.alive THEN LockKilled(p, m)
            ELSE IF m.exc
            THEN /\ Commit(Note(Caught(m), "except", x))
                 /\ Moved(p, "cleanup", proc[p].pos, "")
                 /\ UNCHANGED lock
            ELSE IF proc[p].pos = Len(action_sequence)
            THEN /\ Commit(m)
                 /\ Moved(p, "done", proc[p].pos + 1, "true")
                 /\ lock' = Released(lock, p)
            ELSE /\ Commit(m)
                 /\ Moved(p, "stages", proc[p].pos + 1, "")
                 /\ UNCHANGED lock

\* process p: after a failed stage, unbind and return False
LockCleanup(p) ==
    /\ proc[p].pc = "cleanup"
    /\ LockFrame
    /\ \E in \in Inputs(Mounted, BOOLEAN, {TRUE}, {0}, {TRUE}) :
        \E m \in {run_cleanup(Machine(in.kill), in)} :
            IF ~m.alive THEN LockKilled(p, m)
            ELSE /\ Commit(m)
                 /\ Moved(p, "done", proc[p].pos, IF m.exc THEN "raised" ELSE m.ret)
                 /\ lock' = Released(lock, p)

LockNext ==
    \E p \in Procs :
        \/ LockConstruct(p)
        \/ LockRun(p)
        \/ LockAcquire(p)
        \/ LockBegin(p)
        \/ LockStage(p)
        \/ LockCleanup(p)

LockSpec == LockInit /\ [][LockNext]_vars

\* process p is inside the with block of run()
Inside(p) == proc[p].pc \in {"locked", "stages", "cleanup"}

\* C21: two processes that call run() on the same chroot_path are never inside
\* _run at the same time; the one that comes second waits until the lock is free
C21_OneProcessInRun ==
    \A p, q \in Procs :
        /\ Inside(p) /\ Inside(q) => p = q
        /\ Inside(p) /\ proc[q].pc = "waiting" => lock = p

C21_Witness ==
    /\ proc[1].pc = "stages"
    /\ proc[1].pos > 1
    /\ proc[2].pc = "waiting"

\* C22: a process holds the lock from before the first step of _run until
\* _run has ended, and on every outcome (True, False, an exception, a kill)
\* it holds it no longer
C22_LockHeldExactlyInRun ==
    /\ \A p \in Procs : lock = p <=> Inside(p)
    /\ lock \in Procs \cup {0}

C22_Witness ==
    /\ lock = 0
    /\ proc[1].result = "false"
    /\ proc[2].result = "raised"

StoreEvents == {"mkdir", "enable", "clear_all"}

\* C23: no step of a process creates the checkpoint store, records a
\* checkpoint or clears one while another process holds the lock
C23_StoreOnlyUnderLock ==
    [][ (\E i \in DOMAIN trace' : trace'[i][1] \in StoreEvents) =>
            lock \in {0, actor'} ]_vars

\* ------------------------------------------------- the decision of unpack
\* the resume point of unpack is good: the working root is a directory, the
\* checkpoint is satisfied, and the seed is no regular file or has the hash
\* recorded with the checkpoint
UnpackResumes ==
    /\ "autoresume" \in options
    /\ chroot
    /\ resume["unpack"].on
    /\ \/ source_path_hash = None
       \/ ReplaceNl(source_path_hash) = resume["unpack"].data

ComesAfter(seq, a, b) ==
    \A i \in DOMAIN seq : seq[i][1] = b => \E j \in 1..(i - 1) : seq[j] = a

\* C31: unpack skips the extraction iff autoresume is set, the working root is
\* a directory, the unpack checkpoint is satisfied and the seed is no regular
\* file or has the recorded hash; in every other case an unpack that returns
\* has extracted the seed, and an extraction comes after the working root and,
\* under autoresume, all checkpoints have been cleared
C31_UnpackDecision ==
    [][ pc = "stages" /\ Current = "unpack" =>
          /\ UnpackResumes => log' = <<>>
          /\ ~UnpackResumes /\ StageReturned => Count(log', "extract") = 1
          /\ ComesAfter(log', <<"clear_dir", "chroot">>, "extract")
          /\ "autoresume" \in options =>
                ComesAfter(log', <<"clear_all", "keep">>, "extract") ]_vars

\* a second run under autoresume found the working root without the unpack
\* checkpoint (the first was killed in unpack), cleared both and extracted
C31_Witness ==
    /\ pc = "stages"
    /\ runs = 2
    /\ ran = <<"unpack">>
    /\ "autoresume" \in options
    /\ Len(log) >= 3
    /\ log[1] = <<"clear_all", "keep">>
    /\ log[2] = <<"clear_dir", "chroot">>
    /\ Logged("extract", "ok")

\* C32: when unpack_snapshot transfers, the directory the extract call writes
\* into has been cleared before, with snapcache and without
C32_DestinationClearedFirst ==
    \A i \in DOMAIN trace :
        trace[i][1] = "destination" =>
            \E j \in 1..(i - 1) : trace[j] = <<"clear_dir", trace[i][2]>>

\* ------------------------------------------------- the opening of _run
Clearing(e) == e[1] \in {"clear_all", "clear_dir"} \/ e = <<"call", "countdown">>

C34_BindStartsUnmounted ==
    /\ pc = "stages" /\ Current = "bind" => Mounted = {}
    /\ \A x \in MountNames : mnt[x] <= 1

\* a second run has come to bind after the first one was killed in run_local
\* with its targets mounted
C34_Witness ==
    /\ pc = "stages"
    /\ Current = "bind"
    /\ runs = 2
    /\ "autoresume" \in options
    /\ resume["chroot_setup"].on
    /\ ~resume["run_local"].on

\* ------------------------------------------------- a pipeline with kernels
\* The loop of _run calls whatever the action sequence names; a sequence with
\* build_kernel between bind and unbind, for settings with one or two kernels,
\* some of them with a config file.
KernelSettings ==
    { <<names, cfgs>> :
        names \in (SUBSET KernelNames) \ {{}},
        cfgs \in SUBSET { <<"boot/kernel", x, "config">> : x \in KernelNames } }

KernelInit ==
    /\ options \in {{}, {"autoresume"}}
    /\ keys = {}
    /\ mounts = Prefix(InitMounts(options, keys, TRUE), MaxMounts)
    /\ action_sequence = <<"unpack", "bind", "build_kernel", "unbind">>
    /\ \E c \in KernelSettings :
          /\ c[2] \subseteq { <<"boot/kernel", x, "config">> : x \in c[1] }
          /\ boot_kernel = c[1]
          /\ myspec = {<<"boot/kernel">>} \cup c[2]
    /\ runs = 0
    /\ source_path_hash = None
    /\ snapshot_path_hash = None
    /\ Blank

Stage_build_kernel == RunStage("build_kernel")

KernelNext ==
    \/ Construct
    \/ Begin
    \/ Stage_unpack
    \/ Stage_bind
    \/ Stage_build_kernel
    \/ Stage_unbind
    \/ Cleanup

KernelSpec == KernelInit /\ [][KernelNext]_vars

ControllerCmds ==
    {"pre-kmerge", "post-kmerge", "run", "preclean", "clean"}
        \cup { KernelCmd(x) : x \in KernelNames }

\* C35: once a stage has called the compensating unbind after a failure, it
\* raises, and the controller script is not run again in that step
C35_NoCommandAfterCompensation ==
    /\ \A i, j \in DOMAIN trace :
          i < j /\ trace[i] = <<"call", "unbind">> =>
              ~(trace[j][1] \in {"cmd", "cmd_failed"} /\ trace[j][2] \in ControllerCmds)
    /\ ran # <<>> /\ ran[Len(ran)] = "build_kernel" /\ Logged("call", "unbind")
          => pc = "cleanup"

\* C36: when the controller's kernel command for a kernel has succeeded and
\* build_kernel then fails on a later kernel, the checkpoint of the kernel
\* that was built is satisfied
C36_BuiltKernelIsRecorded ==
    \A x \in KernelNames :
        /\ pc = "cleanup"
        /\ ran # <<>> /\ ran[Len(ran)] = "build_kernel"
        /\ \E i \in DOMAIN trace :
              /\ trace[i] = <<"cmd", KernelCmd(x)>>
              /\ \E j \in DOMAIN trace : j > i /\ trace[j] = <<"cmd", "post-kmerge">>
        => resume[KernelCkpt(x)].on

\* C37: with the clear-autoresume option no checkpoint is satisfied when the
\* first stage of the action sequence is about to be attempted
C37_ClearedBeforeFirstStage ==
    "clear-autoresume" \in options /\ pc = "stages" /\ pos = 1 =>
        \A c \in CkptNames : ~resume[c].on

\* C38: after run has returned True with none of keepwork, seedcache,
\* purgeonly, purgetmponly in the options, no checkpoint is satisfied and the
\* working root does not exist
C38_NothingLeftAfterSuccess ==
    /\ pc = "done"
    /\ result = "true"
    /\ options \cap {"keepwork", "seedcache", "purgeonly", "purgetmponly"} = {}
    => /\ ~chroot
       /\ \A c \in CkptNames : ~resume[c].on

\* C39: a constructor call rejects its configuration exactly when a
\* constructor call in a fresh process, with the table valid_values as the
\* class defines it, rejects the same configuration
C39_ValidationIgnoresHistory ==
    runs > 0 =>
        (verdict = "CatalystError"
            <=> addl_arg_parse(myspec,
                    set_valid_build_kernel_vars(ValidValues, myspec, boot_kernel)) # {})

====
